---- MODULE Spec2Model ----
(***************************************************************************)
(* fdroidcl: the index loader (LoadIndexXml, calcCurApk), the CommaList    *)
(* codec, the description renderer (App.TextDesc) and the search command   *)
(* that consumes the loaded index.                                         *)
(*                                                                         *)
(* Strings are sequences: an identifier is a sequence of byte values, a    *)
(* text is a sequence of one-character strings.                            *)
(***************************************************************************)
EXTENDS Integers, Sequences, FiniteSets, TLC

VARIABLES
    lpc,      \* position of the loader/search process
    doc,      \* the applications as decoder.Decode delivers them
    index,    \* index.Apps as LoadIndexXml returns it
    search,   \* the flags, the device's packages and the outcome of runSearch
    cpc,      \* position of the CommaList round trip
    list,     \* the list the round trip starts from
    cl,       \* the CommaList value
    str,      \* the string cl.String() returned
    rpc,      \* position of TextDesc: "token", "wrap", or "done"
    desc,     \* the tokens the decoder delivers for app.Desc
    descErr,  \* TRUE when the decoder reports a syntax error after them, FALSE for io.EOF
    pos,      \* the tokens delivered so far
    stopped,  \* how the token loop ended: "no", "EOF" or "error"
    w,        \* the output written so far
    firstParagraph, linePrefix, colsUsed, links, linked,   \* TextDesc's locals
    left, limit, firstLine,                                \* the locals of its CharData case
    panicked  \* TRUE after a slice expression was out of range

lvars == <<lpc, doc, index, search>>

cvars == <<cpc, list, cl, str>>

rvars == <<rpc, desc, descErr, pos, stopped, w, firstParagraph, linePrefix, colsUsed,
           links, linked, left, limit, firstLine, panicked>>

vars == <<lpc, doc, index, search, cpc, list, cl, str,
          rpc, desc, descErr, pos, stopped, w, firstParagraph, linePrefix, colsUsed,
          links, linked, left, limit, firstLine, panicked>>

----------------------------------------------------------------------------
(* Bounds of the loader's inputs *)

MaxApps == 2      \* applications in a document
MaxPkgs == 3      \* packages in a document, over all its applications

IDs == {<<>>, <<1, 2>>, <<2>>}      \* application identifiers, as byte strings
VCodes == {30, 40, 50}              \* <versioncode> values
CVCodes == {0, 40}                  \* <marketvercode> values; 0 is the unset int

Min(a, b) == IF a < b THEN a ELSE b

(* Bounds of the CommaList inputs *)
MaxElemLen == 2   \* characters of a list element
MaxListLen == 2   \* elements of a list

Chars == {"a", ","}

RECURSIVE SeqsUpTo(_, _)
SeqsUpTo(S, n) ==
    IF n = 0 THEN {<<>>}
    ELSE LET shorter == SeqsUpTo(S, n - 1)
         IN  shorter \cup {Append(s, x) : s \in {t \in shorter : Len(t) = n - 1}, x \in S}

----------------------------------------------------------------------------
(* Go's string comparison a < b: bytewise lexicographic *)
StrLess(a, b) ==
    \E k \in 1..(Min(Len(a), Len(b)) + 1) :
        /\ \A j \in 1..(k - 1) : a[j] = b[j]
        /\ \/ k > Len(a) /\ k <= Len(b)
           \/ k <= Len(a) /\ k <= Len(b) /\ a[k] < b[k]

(* appList.Less with the comparison reversed *)
appLess_Descending(a, b) == StrLess(b.ID, a.ID)

appLess(a, b) == StrLess(a.ID, b.ID)

apkLess(a, b) == a.VCode > b.VCode

(* sort.Interface: Less of the list type that is being sorted *)
Less(al, a, b) == IF al = "appList" THEN appLess(a, b) ELSE apkLess(a, b)

Swap(data, i, j) == [data EXCEPT ![i] = data[j], ![j] = data[i]]

(* insertionSort's inner loop: element j moves down while it is Less than  *)
(* the one before it                                                       *)
RECURSIVE InsertDown(_, _, _)
InsertDown(al, data, j) ==
    IF j > 1 /\ Less(al, data[j], data[j - 1])
    THEN InsertDown(al, Swap(data, j, j - 1), j - 1)
    ELSE data

RECURSIVE InsertionFrom(_, _, _)
InsertionFrom(al, data, i) ==
    IF i > Len(data) THEN data
    ELSE InsertionFrom(al, InsertDown(al, data, i), i + 1)

insertionSort(al, data) == InsertionFrom(al, data, 2)

(* The pass with gap 6 that quickSort makes before insertionSort           *)
RECURSIVE ShellPassFrom(_, _, _)
ShellPassFrom(al, data, i) ==
    IF i > Len(data) THEN data
    ELSE ShellPassFrom(al,
                       IF Less(al, data[i], data[i - 6]) THEN Swap(data, i, i - 6) ELSE data,
                       i + 1)

(* The bijections on 1..n *)
Perms(n) == {p \in [1..n -> 1..n] : \A i, j \in 1..n : p[i] = p[j] => i = j}

(* Up to this length every release of the library sorts by insertion       *)
(* alone, or by the gap-6 pass and insertion.                              *)
SmallSort == 7

(* sort.Sort: "The sort is not guaranteed to be stable".  Up to SmallSort  *)
(* elements the result is insertionSort's (Go up to 1.5 and from 1.19) or  *)
(* that of the gap-6 pass followed by insertionSort (Go 1.6 to 1.18; the   *)
(* pass does nothing below 7 elements).  Beyond, the result is any         *)
(* rearrangement of the data in which no element is Less than one before   *)
(* it.                                                                     *)
SortOutcomes(al, data) ==
    IF Len(data) <= SmallSort
    THEN {insertionSort(al, data), insertionSort(al, ShellPassFrom(al, data, 7))}
    ELSE {t \in {[i \in 1..Len(data) |-> data[p[i]]] : p \in Perms(Len(data))} :
             \A i, j \in 1..Len(t) : i < j => ~Less(al, t[j], t[i])}

(* calcCurApk's loop breaking on CVCode > VCode instead of >= *)
RECURSIVE CurApkWalk_Strict(_, _, _, _)
CurApkWalk_Strict(apks, cvcode, i, cur) ==
    IF i > Len(apks) THEN cur
    ELSE IF cvcode > apks[i].VCode THEN <<apks[i]>>
    ELSE CurApkWalk_Strict(apks, cvcode, i + 1, <<apks[i]>>)

(* The loop of calcCurApk from package i on; cur is app.CurApk, <<>> is nil. *)
(* CurApk points at the loop variable, which holds a copy of the package.    *)
RECURSIVE CurApkWalk(_, _, _, _)
CurApkWalk(apks, cvcode, i, cur) ==
    IF i > Len(apks) THEN cur
    ELSE IF cvcode >= apks[i].VCode THEN <<apks[i]>>
    ELSE CurApkWalk(apks, cvcode, i + 1, <<apks[i]>>)

calcCurApk(app) ==
    [app EXCEPT !.CurApk = CurApkWalk(app.Apks, app.CVCode, 1, app.CurApk)]

----------------------------------------------------------------------------
(* The documents.  VName tells an application's packages apart: the i-th    *)
(* <package> of an <application> has version name i.                        *)
RECURSIVE Sum(_, _)
Sum(ks, n) == IF n = 0 THEN 0 ELSE ks[n] + Sum(ks, n - 1)

(* The document of n applications in which application i has identifier   *)
(* ids[i], market version code cvs[i] and the next ks[i] of the version    *)
(* codes vs as its packages.  CurApk is nil after decoding: the manifest   *)
(* has no element for it.                                                  *)
DocOf(n, ids, cvs, ks, vs) ==
    [i \in 1..n |->
        [ID |-> ids[i], CVCode |-> cvs[i], CurApk |-> <<>>,
         Apks |-> [j \in 1..ks[i] |-> [VCode |-> vs[Sum(ks, i - 1) + j], VName |-> j]]]]

(* doc is a document of at most maxApps applications and maxPkgs packages *)
IsDoc(maxApps, maxPkgs) ==
    \E n \in 0..maxApps :
        \E ids \in [1..n -> IDs], cvs \in [1..n -> CVCodes], ks \in [1..n -> 0..maxPkgs] :
            /\ Sum(ks, n) <= maxPkgs
            /\ \E vs \in [1..Sum(ks, n) -> VCodes] : doc = DocOf(n, ids, cvs, ks, vs)

(* Documents of one application with more packages *)
ManyPkgs == 7

(* What the device reports as installed: no device, or the identifiers of  *)
(* the installed packages, each installed with version code vcode.         *)
Devices ==
    {[present |-> FALSE, inst |-> {}, vcode |-> 0]} \cup
    {[present |-> TRUE, inst |-> S, vcode |-> 40] : S \in {{<<2>>}, IDs}}

NoSearch == [updates |-> FALSE, installed |-> FALSE, quiet |-> FALSE,
             device |-> [present |-> FALSE, inst |-> {}, vcode |-> 0],
             outcome |-> "none", printed |-> <<>>]

----------------------------------------------------------------------------
(* LoadIndexXml *)

LInit ==
    /\ lpc = "start"
    /\ IsDoc(MaxApps, MaxPkgs)
    /\ index = <<>>
    /\ search = NoSearch

(* decoder.Decode fails: return nil, err *)
LoadIndexXmlError ==
    /\ lpc = "start"
    /\ lpc' = "failed"
    /\ UNCHANGED <<doc, index, search>>
    /\ UNCHANGED <<cvars, rvars>>

(* sort.Sort(apkList(app.Apks)); app.calcCurApk() *)
NormalizeOutcomes(app) ==
    {calcCurApk([app EXCEPT !.Apks = apks]) : apks \in SortOutcomes("apkList", app.Apks)}

(* The loop over index.Apps from application i on: the indexes it can leave *)
RECURSIVE NormalizeFrom(_, _)
NormalizeFrom(apps, i) ==
    IF i > Len(apps) THEN {apps}
    ELSE UNION {NormalizeFrom([apps EXCEPT ![i] = app], i + 1) : app \in NormalizeOutcomes(apps[i])}

LoadIndexXml ==
    /\ lpc = "start"
    /\ \E sorted \in SortOutcomes("appList", doc) :
          \E idx \in NormalizeFrom(sorted, 1) : index' = idx
    /\ lpc' = "loaded"
    /\ UNCHANGED <<doc, search>>
    /\ UNCHANGED <<cvars, rvars>>

----------------------------------------------------------------------------
(* The search command.  It is run without search terms, so that            *)
(* filterAppsSearch keeps every application (appMatches returns true when  *)
(* there is no regexp to fail).                                            *)

filterAppsInstalled(apps, inst) == SelectSeq(apps, LAMBDA app : app.ID \in inst)

(* The loop of filterAppsUpdates from application i on.  app.CurApk.VCode   *)
(* on a nil CurApk is a nil pointer dereference: the run panics.           *)
RECURSIVE UpdatesFrom(_, _, _, _)
UpdatesFrom(apps, device, i, result) ==
    IF i > Len(apps) THEN [panic |-> FALSE, result |-> result]
    ELSE IF apps[i].ID \notin device.inst THEN UpdatesFrom(apps, device, i + 1, result)
    ELSE IF apps[i].CurApk = <<>> THEN [panic |-> TRUE, result |-> result]
    ELSE IF device.vcode >= apps[i].CurApk[1].VCode THEN UpdatesFrom(apps, device, i + 1, result)
    ELSE UpdatesFrom(apps, device, i + 1, Append(result, apps[i]))

filterAppsUpdates(apps, device) == UpdatesFrom(apps, device, 1, <<>>)

(* printApp reads app.CurApk.VName: a panic on a nil CurApk.  A printed    *)
(* line is the identifier and the version name.                            *)
RECURSIVE PrintFrom(_, _, _)
PrintFrom(apps, i, printed) ==
    IF i > Len(apps) THEN [panic |-> FALSE, printed |-> printed]
    ELSE IF apps[i].CurApk = <<>> THEN [panic |-> TRUE, printed |-> printed]
    ELSE PrintFrom(apps, i + 1, Append(printed, <<apps[i].ID, apps[i].CurApk[1].VName>>))

printApps(apps) == PrintFrom(apps, 1, <<>>)

printIDs(apps) == [panic |-> FALSE, printed |-> [i \in 1..Len(apps) |-> <<apps[i].ID>>]]

runSearchOutcome(apps, updates, installed, quiet, device) ==
    IF ~device.present /\ (installed \/ updates)
    THEN [outcome |-> "fatal", printed |-> <<>>]
    ELSE LET apps1 == IF installed THEN filterAppsInstalled(apps, device.inst) ELSE apps
             upd   == IF updates THEN filterAppsUpdates(apps1, device)
                      ELSE [panic |-> FALSE, result |-> apps1]
             out   == IF quiet THEN printIDs(upd.result) ELSE printApps(upd.result)
         IN  IF upd.panic THEN [outcome |-> "panic", printed |-> <<>>]
             ELSE [outcome |-> IF out.panic THEN "panic" ELSE "ok", printed |-> out.printed]

(* runSearch; -i with -u is left out (what cmdSearch.Flag.Usage does then  *)
(* is not in these sources).                                               *)
runSearch ==
    /\ lpc = "loaded"
    /\ \E updates, installed, quiet \in BOOLEAN, device \in Devices :
          /\ ~(installed /\ updates)
          /\ LET r == runSearchOutcome(index, updates, installed, quiet, device)
             IN  search' = [updates |-> updates, installed |-> installed, quiet |-> quiet,
                            device |-> device, outcome |-> r.outcome, printed |-> r.printed]
    /\ lpc' = "searched"
    /\ UNCHANGED <<doc, index>>
    /\ UNCHANGED <<cvars, rvars>>

----------------------------------------------------------------------------
(* CommaList.  A string is a sequence of characters. *)

(* strings.Split(s, ",") from character i on: cur is the piece being read, *)
(* pieces the pieces before it                                             *)
RECURSIVE SplitFrom_DropEmpty(_, _, _, _)
SplitFrom_DropEmpty(s, i, cur, pieces) ==
    IF i > Len(s) THEN (IF cur = <<>> THEN pieces ELSE Append(pieces, cur))
    ELSE IF s[i] = "," THEN SplitFrom_DropEmpty(s, i + 1, <<>>, Append(pieces, cur))
    ELSE SplitFrom_DropEmpty(s, i + 1, Append(cur, s[i]), pieces)

RECURSIVE SplitFrom(_, _, _, _)
SplitFrom(s, i, cur, pieces) ==
    IF i > Len(s) THEN Append(pieces, cur)
    ELSE IF s[i] = "," THEN SplitFrom(s, i + 1, <<>>, Append(pieces, cur))
    ELSE SplitFrom(s, i + 1, Append(cur, s[i]), pieces)

(* strings.Join(elems, ",") *)
RECURSIVE Join(_)
Join(elems) ==
    IF Len(elems) = 0 THEN <<>>
    ELSE IF Len(elems) = 1 THEN elems[1]
    ELSE elems[1] \o <<",">> \o Join(Tail(elems))

CommaListFromString(s) == SplitFrom(s, 1, <<>>, <<>>)

CommaListString(l) == Join(l)

CIdle ==
    /\ cpc = "idle"
    /\ list = <<>>
    /\ cl = <<>>
    /\ str = <<>>

CInit ==
    /\ cpc = "start"
    /\ list \in SeqsUpTo(SeqsUpTo(Chars, MaxElemLen), MaxListLen)
    /\ cl = list
    /\ str = <<>>

(* s := cl.String() *)
String ==
    /\ cpc = "start"
    /\ str' = CommaListString(cl)
    /\ cpc' = "encoded"
    /\ UNCHANGED <<list, cl>>
    /\ UNCHANGED <<lvars, rvars>>

(* cl.FromString(s) *)
FromString ==
    /\ cpc = "encoded"
    /\ cl' = CommaListFromString(str)
    /\ cpc' = "decoded"
    /\ UNCHANGED <<list, str>>
    /\ UNCHANGED <<lvars, rvars>>

RIdle ==
    /\ rpc = "idle"
    /\ desc = <<>>
    /\ descErr = FALSE
    /\ pos = 0
    /\ stopped = "no"
    /\ w = <<>>
    /\ firstParagraph = TRUE
    /\ linePrefix = <<>>
    /\ colsUsed = 0
    /\ links = <<>>
    /\ linked = FALSE
    /\ left = <<>>
    /\ limit = 0
    /\ firstLine = TRUE
    /\ panicked = FALSE

LIdle ==
    /\ lpc = "idle"
    /\ doc = <<>>
    /\ index = <<>>
    /\ search = NoSearch

----------------------------------------------------------------------------
(* App.TextDesc.  A text is a sequence of characters; "\n" is the line     *)
(* break that Fprintln writes.                                             *)

LineWidth == 80

MaxTokens == 3    \* tokens of a description
MaxOver == 10     \* characters by which a long run exceeds LineWidth
MaxItems == 2     \* items of a list document

Rep(c, n) == [i \in 1..n |-> c]

Letters == <<"a", "b", "c", "d", "e", "f", "g", "h", "i", "j">>

(* A run of n characters without a space *)
LongRun(n) == [i \in 1..n |-> Letters[(i % 10) + 1]]

(* Words of nine characters, a space after each *)
SpacedRun == [i \in 1..100 |-> IF i % 10 = 0 THEN " " ELSE "w"]

Start(name, attr) == [kind |-> "StartElement", name |-> name, attr |-> attr, data |-> <<>>]
End(name) == [kind |-> "EndElement", name |-> name, attr |-> <<>>, data |-> <<>>]
Text(data) == [kind |-> "CharData", name |-> "", attr |-> <<>>, data |-> data]
Comment == [kind |-> "Comment", name |-> "", attr |-> <<>>, data |-> <<>>]

Attr(name, value) == [name |-> name, value |-> value]

Names == {"p", "ul", "ol", "li", "a", "b"}

AnchorAttrs ==
    { <<>>,
      <<Attr("href", <<"x">>)>>,
      <<Attr("title", <<"t">>), Attr("href", <<"y">>)>> }

Runs == {<<>>, <<"a", "b">>, Rep("x", 50), SpacedRun}

Tokens ==
    {Start(n, <<>>) : n \in Names \ {"a"}} \cup {Start("a", at) : at \in AnchorAttrs}
    \cup {End(n) : n \in Names} \cup {Text(r) : r \in Runs} \cup {Comment}

(* The decoder's stack of open elements after tokens i.. of ts, or         *)
(* <<"mismatch">> when an end element does not close the open one: the     *)
(* decoder reports a syntax error in place of such a token.                *)
RECURSIVE OpenFrom(_, _, _)
OpenFrom(ts, i, stack) ==
    IF i > Len(ts) THEN stack
    ELSE IF ts[i].kind = "StartElement" THEN OpenFrom(ts, i + 1, <<ts[i].name>> \o stack)
    ELSE IF ts[i].kind = "EndElement"
         THEN IF stack # <<>> /\ Head(stack) = ts[i].name
              THEN OpenFrom(ts, i + 1, Tail(stack))
              ELSE <<"mismatch">>
    ELSE OpenFrom(ts, i + 1, stack)

Open(ts) == OpenFrom(ts, 1, <<>>)

(* The documents of section 8 *)
HelloDoc == <<Start("p", <<>>), Text(<<"H", "e", "l", "l", "o", " ", "w", "o", "r", "l", "d">>),
              End("p")>>

HrefX == <<"h", "t", "t", "p", ":", "/", "/", "x">>

LinkDoc ==
    <<Start("p", <<>>), Text(<<"S", "e", "e", " ">>),
      Start("a", <<Attr("href", HrefX)>>), Text(<<"h", "e", "r", "e">>), End("a"),
      Text(<<".">>), End("p")>>

Intro == <<"I", "n", "t", "r", "o">>
Items == <<<<"O", "n", "e">>, <<"T", "w", "o">>>>

RECURSIVE ItemTokens(_, _)
ItemTokens(texts, i) ==
    IF i > Len(texts) THEN <<>>
    ELSE <<Start("li", <<>>), Text(texts[i]), End("li")>> \o ItemTokens(texts, i + 1)

(* <p>Intro</p><ul><li>..</li>..</ul> with the given item texts *)
ListDoc(texts) ==
    <<Start("p", <<>>), Text(Intro), End("p"), Start("ul", <<>>)>>
    \o ItemTokens(texts, 1) \o <<End("ul")>>

ExampleListDoc == ListDoc(Items)

(* A paragraph that starts with one run of n characters without a space *)
LongRunDoc(n) == <<Start("p", <<>>), Text(LongRun(n)), End("p")>>

(* The same run in a list item, and after two characters of the paragraph *)
LongRunItemDoc(n) == <<Start("ul", <<>>), Start("li", <<>>), Text(LongRun(n))>>
LongRunLaterDoc(n) == <<Start("p", <<>>), Text(<<"a", "b">>), Comment, Text(LongRun(n))>>

RInit ==
    /\ rpc = "token"
    /\ \/ \E n \in 0..MaxTokens : \E ts \in [1..n -> Tokens] :
             /\ Open(ts) # <<"mismatch">>
             /\ desc = ts
             /\ descErr \in (IF Open(ts) = <<>> THEN BOOLEAN ELSE {TRUE})
       \/ /\ desc \in {HelloDoc, LinkDoc}
          /\ descErr = FALSE
       \/ /\ \E k \in 0..MaxItems : \E f \in [1..k -> {Items[1], Items[2]}] : desc = ListDoc(f)
          /\ descErr = FALSE
       \/ /\ \E n \in (LineWidth + 1)..(LineWidth + MaxOver) :
                desc \in {LongRunDoc(n), LongRunItemDoc(n), LongRunLaterDoc(n)}
          /\ descErr = (Open(desc) # <<>>)
    /\ pos = 0
    /\ stopped = "no"
    /\ w = <<>>
    /\ firstParagraph = TRUE
    /\ linePrefix = <<>>
    /\ colsUsed = 0
    /\ links = <<>>
    /\ linked = FALSE
    /\ left = <<>>
    /\ limit = 0
    /\ firstLine = TRUE
    /\ panicked = FALSE

NL == "\n"

Digits == <<"0", "1", "2", "3", "4", "5", "6", "7", "8", "9">>

(* The verb %d for a number that is not negative *)
RECURSIVE Itoa(_)
Itoa(n) == IF n < 10 THEN <<Digits[n + 1]>> ELSE Itoa(n \div 10) \o <<Digits[(n % 10) + 1]>>

(* The value of the first href attribute, <<v>>, or <<>> when there is none *)
RECURSIVE HrefFrom(_, _)
HrefFrom(attr, i) ==
    IF i > Len(attr) THEN <<>>
    ELSE IF attr[i].name = "href" THEN <<attr[i].value>>
    ELSE HrefFrom(attr, i + 1)

(* The marker numbered with len(links) instead of len(links)-1 *)
Marker_OffByOne(ls) == <<"[">> \o Itoa(Len(ls)) \o <<"]">>

(* fmt.Sprintf("[%d]", len(links)-1) *)
Marker(ls) == <<"[">> \o Itoa(Len(ls) - 1) \o <<"]">>

(* The end elements after which a line break is written, "li" among them *)
BreaksLine_WithItem(name) == name \in {"p", "ul", "ol", "li"}

(* The end elements after which a line break is written *)
BreaksLine(name) == name \in {"p", "ul", "ol"}

(* The break point that falls back to the limit when no space is found *)
BreakAt_HardSplit(t, lim) ==
    LET spaces == {k \in 1..Min(lim, Len(t)) : t[k] = " "}
    IN  IF spaces = {} THEN Min(lim, Len(t) - 1)
        ELSE (CHOOSE k \in spaces : \A j \in spaces : j <= k) - 1

(* last: the index, counted from 0, of the last space of t before index    *)
(* lim, or 0 when there is none                                            *)
BreakAt(t, lim) ==
    LET spaces == {k \in 1..Min(lim, Len(t)) : t[k] = " "}
    IN  IF spaces = {} THEN 0
        ELSE (CHOOSE k \in spaces : \A j \in spaces : j <= k) - 1

RECURSIVE FootnoteLines(_, _)
FootnoteLines(ls, i) ==
    IF i > Len(ls) THEN <<>>
    ELSE <<"[">> \o Itoa(i - 1) \o <<"]", " ">> \o ls[i] \o <<NL>> \o FootnoteLines(ls, i + 1)

(* The block written without the test len(links) > 0 *)
FootnoteBlock_Always(ls) == <<NL>> \o FootnoteLines(ls, 1)

(* What is written after the token loop *)
FootnoteBlock(ls) == IF Len(ls) > 0 THEN <<NL>> \o FootnoteLines(ls, 1) ELSE <<>>

Token == desc[pos + 1]

HasToken == rpc = "token" /\ pos < Len(desc)

StartP ==
    /\ HasToken
    /\ Token.kind = "StartElement" /\ Token.name = "p"
    /\ IF firstParagraph
       THEN firstParagraph' = FALSE /\ w' = w
       ELSE w' = Append(w, NL) /\ UNCHANGED firstParagraph
    /\ linePrefix' = <<>>
    /\ colsUsed' = 0
    /\ pos' = pos + 1
    /\ UNCHANGED <<rpc, desc, descErr, stopped, links, linked, left, limit, firstLine, panicked>>
    /\ UNCHANGED <<lvars, cvars>>

StartLi ==
    /\ HasToken
    /\ Token.kind = "StartElement" /\ Token.name = "li"
    /\ w' = w \o <<NL, " ", "*">>
    /\ linePrefix' = <<" ", " ", " ">>
    /\ colsUsed' = 0
    /\ pos' = pos + 1
    /\ UNCHANGED <<rpc, desc, descErr, stopped, firstParagraph, links, linked, left, limit,
                   firstLine, panicked>>
    /\ UNCHANGED <<lvars, cvars>>

StartA ==
    /\ HasToken
    /\ Token.kind = "StartElement" /\ Token.name = "a"
    /\ LET href == HrefFrom(Token.attr, 1)
       IN  IF href # <<>>
           THEN links' = Append(links, href[1]) /\ linked' = TRUE
           ELSE UNCHANGED <<links, linked>>
    /\ pos' = pos + 1
    /\ UNCHANGED <<rpc, desc, descErr, stopped, w, firstParagraph, linePrefix, colsUsed, left,
                   limit, firstLine, panicked>>
    /\ UNCHANGED <<lvars, cvars>>

(* A start element of another name, an end element after which nothing is  *)
(* written, a comment: no case of the switch                               *)
Skip ==
    /\ HasToken
    /\ \/ Token.kind = "StartElement" /\ Token.name \notin {"p", "li", "a"}
       \/ Token.kind = "EndElement" /\ ~BreaksLine(Token.name)
       \/ Token.kind = "Comment"
    /\ pos' = pos + 1
    /\ UNCHANGED <<rpc, desc, descErr, stopped, w, firstParagraph, linePrefix, colsUsed, links,
                   linked, left, limit, firstLine, panicked>>
    /\ UNCHANGED <<lvars, cvars>>

EndElement ==
    /\ HasToken
    /\ Token.kind = "EndElement" /\ BreaksLine(Token.name)
    /\ w' = Append(w, NL)
    /\ pos' = pos + 1
    /\ UNCHANGED <<rpc, desc, descErr, stopped, firstParagraph, linePrefix, colsUsed, links,
                   linked, left, limit, firstLine, panicked>>
    /\ UNCHANGED <<lvars, cvars>>

(* case xml.CharData, up to the wrap loop *)
CharData ==
    /\ HasToken
    /\ Token.kind = "CharData"
    /\ left' = IF linked THEN Token.data \o Marker(links) ELSE Token.data
    /\ linked' = FALSE
    /\ limit' = LineWidth - Len(linePrefix) - colsUsed
    /\ firstLine' = TRUE
    /\ rpc' = "wrap"
    /\ pos' = pos + 1
    /\ UNCHANGED <<desc, descErr, stopped, w, firstParagraph, linePrefix, colsUsed, links,
                   panicked>>
    /\ UNCHANGED <<lvars, cvars>>

(* One iteration of for len(left) > limit.  left[last+1:] beyond the end   *)
(* of left is a run-time panic.                                            *)
WrapLine ==
    /\ rpc = "wrap"
    /\ Len(left) > limit
    /\ LET last == BreakAt(left, limit)
       IN  /\ IF firstLine
              THEN /\ firstLine' = FALSE
                   /\ limit' = limit + colsUsed
                   /\ w' = w \o SubSeq(left, 1, last) \o <<NL>>
              ELSE /\ UNCHANGED <<firstLine, limit>>
                   /\ w' = w \o linePrefix \o SubSeq(left, 1, last) \o <<NL>>
           /\ IF last + 1 > Len(left)
              THEN /\ panicked' = TRUE
                   /\ rpc' = "done"
                   /\ UNCHANGED <<left, colsUsed>>
              ELSE /\ left' = SubSeq(left, last + 2, Len(left))
                   /\ colsUsed' = 0
                   /\ UNCHANGED <<panicked, rpc>>
    /\ UNCHANGED <<desc, descErr, pos, stopped, firstParagraph, linePrefix, links, linked>>
    /\ UNCHANGED <<lvars, cvars>>

(* After the loop: the rest of the run stays on the open line *)
WrapRest ==
    /\ rpc = "wrap"
    /\ Len(left) <= limit
    /\ IF firstLine
       THEN firstLine' = FALSE /\ w' = w \o left
       ELSE UNCHANGED firstLine /\ w' = w \o linePrefix \o left
    /\ colsUsed' = colsUsed + Len(left)
    /\ rpc' = "token"
    /\ UNCHANGED <<desc, descErr, pos, stopped, firstParagraph, linePrefix, links, linked,
                   left, limit, panicked>>
    /\ UNCHANGED <<lvars, cvars>>

(* decoder.Token() returns io.EOF, or a nil token with a syntax error: the *)
(* loop ends and the links are written                                     *)
Finish ==
    /\ rpc = "token"
    /\ pos = Len(desc)
    /\ stopped' = IF descErr THEN "error" ELSE "EOF"
    /\ w' = w \o FootnoteBlock(links)
    /\ rpc' = "done"
    /\ UNCHANGED <<desc, descErr, pos, firstParagraph, linePrefix, colsUsed, links, linked,
                   left, limit, firstLine, panicked>>
    /\ UNCHANGED <<lvars, cvars>>

TextDescNext ==
    StartP \/ StartLi \/ StartA \/ Skip \/ EndElement \/ CharData \/ WrapLine \/ WrapRest \/ Finish

RenderInit == LIdle /\ CIdle /\ RInit

SpecRender == RenderInit /\ [][TextDescNext]_vars

(* TextDesc runs to its end: no step of it waits for anything *)
SpecRenderFair == RenderInit /\ [][TextDescNext]_vars /\ WF_vars(TextDescNext)

----------------------------------------------------------------------------
LoadNext == LoadIndexXml \/ LoadIndexXmlError

SearchNext == LoadIndexXml \/ LoadIndexXmlError \/ runSearch

CommaNext == String \/ FromString

Init == LInit /\ CIdle /\ RIdle

Spec == Init /\ [][LoadNext]_vars

SpecSearch == Init /\ [][SearchNext]_vars

ApksInit ==
    /\ lpc = "start"
    /\ IsDoc(1, ManyPkgs)
    /\ index = <<>>
    /\ search = NoSearch
    /\ CIdle
    /\ RIdle

SpecApks == ApksInit /\ [][LoadNext]_vars

CommaInit == LIdle /\ CInit /\ RIdle

SpecComma == CommaInit /\ [][CommaNext]_vars

----------------------------------------------------------------------------
(* Properties of the loader *)

VCodesOf(app) == [i \in 1..Len(app.Apks) |-> app.Apks[i].VCode]

(* C1: after LoadIndexXml succeeds, an application with packages has as    *)
(* CurApk the first package of its sorted sequence whose version code is   *)
(* at most CVCode, or the last package when there is none; one without     *)
(* packages has a nil CurApk.  Version codes [50,40,30] give 40 for market *)
(* code 40 and 30 for market code 0.                                       *)
C1_CurApkSelection ==
    lpc = "loaded" =>
        \A n \in 1..Len(index) :
            LET app == index[n]
                le  == {i \in 1..Len(app.Apks) : app.Apks[i].VCode <= app.CVCode}
            IN  /\ app.Apks = <<>> => app.CurApk = <<>>
                /\ app.Apks # <<>> /\ le # {} =>
                      \E i \in le : /\ \A j \in le : i <= j
                                     /\ app.CurApk = <<app.Apks[i]>>
                /\ app.Apks # <<>> /\ le = {} => app.CurApk = <<app.Apks[Len(app.Apks)]>>
                /\ VCodesOf(app) = <<50, 40, 30>> /\ app.CVCode = 40 => app.CurApk[1].VCode = 40
                /\ VCodesOf(app) = <<50, 40, 30>> /\ app.CVCode = 0 => app.CurApk[1].VCode = 30

C1_Witness ==
    /\ lpc = "loaded"
    /\ \E n \in 1..Len(index) :
          /\ VCodesOf(index[n]) = <<50, 40, 30>>
          /\ VCodesOf(doc[n]) # <<50, 40, 30>>
          /\ index[n].CVCode = 40
          /\ index[n].CurApk # <<>>
          /\ index[n].CurApk[1].VCode = 40

(* C2: after LoadIndexXml succeeds, every application's Apks are in        *)
(* descending order of version code, and packages of equal version code    *)
(* are in the order of the document.                                       *)
C2_SortedStable ==
    lpc = "loaded" =>
        \A n \in 1..Len(index) :
            \A i, j \in 1..Len(index[n].Apks) :
                i < j =>
                    /\ index[n].Apks[i].VCode >= index[n].Apks[j].VCode
                    /\ index[n].Apks[i].VCode = index[n].Apks[j].VCode =>
                          index[n].Apks[i].VName < index[n].Apks[j].VName

UniqueIDs(apps) ==
    \A i, j \in 1..Len(apps) : apps[i].ID = apps[j].ID => i = j

(* C3: for a document whose identifiers are unique and non-empty, the Apps *)
(* of the loaded index are in ascending order of identifier and are the    *)
(* decoded applications, each exactly once.                                *)
C3_AppsSortedPermutation ==
    (lpc = "loaded" /\ UniqueIDs(doc) /\ \A i \in 1..Len(doc) : doc[i].ID # <<>>) =>
        /\ \A i, j \in 1..Len(index) : i < j => StrLess(index[i].ID, index[j].ID)
        /\ Len(index) = Len(doc)
        /\ \A i \in 1..Len(doc) :
              \E j \in 1..Len(index) :
                  /\ index[j].ID = doc[i].ID
                  /\ index[j].CVCode = doc[i].CVCode
                  /\ Len(index[j].Apks) = Len(doc[i].Apks)
                  /\ {index[j].Apks[k] : k \in 1..Len(index[j].Apks)}
                        = {doc[i].Apks[k] : k \in 1..Len(doc[i].Apks)}

C3_Witness ==
    /\ lpc = "loaded"
    /\ Len(doc) = 2
    /\ doc[1].ID = <<2>>
    /\ doc[2].ID = <<1, 2>>
    /\ index[1].ID = <<1, 2>>
    /\ index[2].ID = <<2>>

(* C4: the search command runs over a loaded index that has an             *)
(* application without packages without dereferencing its nil CurApk.      *)
C4_SearchNoNilDeref ==
    lpc = "searched" => search.outcome # "panic"

----------------------------------------------------------------------------
(* Properties of CommaList *)

NoComma(l) == \A i \in 1..Len(l) : \A k \in 1..Len(l[i]) : l[i][k] # ","

(* C5 as stated: decoding the encoding of a list whose elements contain no *)
(* commas returns the same list, for every such list, the empty list       *)
(* included.                                                               *)
C5_RoundTripEveryList ==
    (cpc = "decoded" /\ NoComma(list)) => cl = list

(* C5 amended: decoding the encoding of a non-empty list whose elements    *)
(* contain no commas returns the same list (elements that are the empty    *)
(* string included); the empty list comes back as the list of one empty    *)
(* string.                                                                 *)
C5_RoundTripNonEmpty ==
    (cpc = "decoded" /\ NoComma(list)) =>
        /\ list # <<>> => cl = list
        /\ list = <<>> => cl = << <<>> >>

C5_Witness ==
    /\ cpc = "decoded"
    /\ list = << <<>>, <<"a">> >>
    /\ str = <<",", "a">>
    /\ cl = list

----------------------------------------------------------------------------
(* Properties of TextDesc *)

Contains(t, sub) ==
    \E i \in 0..(Len(t) - Len(sub)) : SubSeq(t, i + 1, i + Len(sub)) = sub

RECURSIVE Concat(_)
Concat(ts) == IF ts = <<>> THEN <<>> ELSE Head(ts) \o Concat(Tail(ts))

IsListDoc ==
    \E k \in 0..(MaxItems + 1) : \E f \in [1..k -> {Items[1], Items[2]}] : desc = ListDoc(f)

(* The item texts of a list document, in order *)
ItemTexts == [i \in 1..((Len(desc) - 5) \div 3) |-> desc[3 * i + 3].data]

(* C6 as stated: the output for <p>Intro</p><ul><li>One</li><li>Two</li>   *)
(* </ul> contains "Intro\n\n *One\n *Two\n\n": the last item's line is     *)
(* terminated and a further line break ends the list.                      *)
C6_ListEndsWithTwoBreaks ==
    (rpc = "done" /\ desc = ExampleListDoc) =>
        Contains(w, Intro \o <<NL, NL, " ", "*", "O", "n", "e", NL, " ", "*", "T", "w", "o", NL, NL>>)

(* C6 amended: a paragraph followed by an unordered list is rendered as    *)
(* the paragraph text and a line break, then for each item a line break,   *)
(* " *" and the item's text, then one line break for the end of the list;  *)
(* the example gives exactly "Intro\n\n *One\n *Two\n".                    *)
C6_ListEndsWithOneBreak ==
    /\ (rpc = "done" /\ IsListDoc) =>
          w = Intro \o <<NL>>
              \o Concat([i \in 1..Len(ItemTexts) |-> <<NL, " ", "*">> \o ItemTexts[i]])
              \o <<NL>>
    /\ (rpc = "done" /\ desc = ExampleListDoc) =>
          w = Intro \o <<NL, NL, " ", "*", "O", "n", "e", NL, " ", "*", "T", "w", "o", NL>>

C6_Witness ==
    /\ rpc = "done"
    /\ desc = ExampleListDoc
    /\ w = Intro \o <<NL, NL, " ", "*", "O", "n", "e", NL, " ", "*", "T", "w", "o", NL>>

IsAnchor(t) == t.kind = "StartElement" /\ t.name = "a" /\ \E i \in 1..Len(t.attr) : t.attr[i].name = "href"

(* The address of an anchor: its first href attribute *)
Address(t) ==
    LET i == CHOOSE i \in 1..Len(t.attr) :
                 /\ t.attr[i].name = "href"
                 /\ \A j \in 1..(i - 1) : t.attr[j].name # "href"
    IN  t.attr[i].value

(* The positions among the first n tokens of anchors that have an href *)
AnchorsBefore(n) == {j \in 1..n : IsAnchor(desc[j])}

(* The addresses of the anchors among the first n tokens, in order *)
RECURSIVE AddressesFrom(_, _)
AddressesFrom(j, n) ==
    IF j > n THEN <<>>
    ELSE IF IsAnchor(desc[j]) THEN <<Address(desc[j])>> \o AddressesFrom(j + 1, n)
    ELSE AddressesFrom(j + 1, n)

(* An anchor with an href was opened since the last text run *)
AnchorPending(n) ==
    \E j \in AnchorsBefore(n) : \A k \in (j + 1)..n : desc[k].kind # "CharData"

NoteLine(i, address) == <<"[">> \o Itoa(i) \o <<"]", " ">> \o address \o <<NL>>

Notes(addresses) ==
    IF addresses = <<>> THEN <<>>
    ELSE <<NL>> \o Concat([i \in 1..Len(addresses) |-> NoteLine(i - 1, addresses[i])])

LinkDocOutput ==
    <<"S", "e", "e", " ", "h", "e", "r", "e", "[", "0", "]", ".", NL, NL,
      "[", "0", "]", " ">> \o HrefX \o <<NL>>

C8_NothingAfterProblem ==
    /\ [](~panicked)
    /\ [][(rpc = "token" /\ rpc' = "done" /\ descErr) => w' = w]_vars

(* C8 amended: the renderer never fails, and when the decoder reports a    *)
(* problem after k tokens no further token is handled: the output is the   *)
(* output of those k tokens, followed by the footnote block of the links   *)
(* recorded in them, and by nothing when no link was recorded.             *)
C8_OnlyNotesAfterProblem ==
    /\ [](~panicked)
    /\ [](rpc = "done" => pos = Len(desc) /\ stopped = (IF descErr THEN "error" ELSE "EOF"))
    /\ [][(rpc = "token" /\ rpc' = "done" /\ descErr) =>
             /\ pos = Len(desc)
             /\ links = <<>> => w' = w
             /\ links # <<>> => w' = w \o Notes(links)]_vars

C8_Witness ==
    /\ rpc = "done"
    /\ stopped = "error"
    /\ links # <<>>
    /\ Open(desc) # <<>>
    /\ Len(w) > Len(Notes(links))

NoSpaceBefore(t, lim) == \A k \in 1..Min(lim, Len(t)) : t[k] # " "

(* C9: a wrap iteration on a run that has no space within the budget       *)
(* writes an empty segment and a line break and drops the first character  *)
(* of the run; the loop terminates; one run of n > 80 characters without a *)
(* space at the start of a paragraph comes out as n-80 line breaks and     *)
(* then its last 80 characters.                                            *)
C9_EmptySegments ==
    /\ [][(rpc = "wrap" /\ Len(left) > limit /\ NoSpaceBefore(left, limit)) =>
             /\ w' = w \o (IF firstLine THEN <<>> ELSE linePrefix) \o <<NL>>
             /\ left' = Tail(left)]_vars
    /\ [][(rpc = "wrap" /\ rpc' = "wrap") => Len(left') < Len(left)]_vars
    /\ (rpc = "wrap") ~> (rpc # "wrap")
    /\ [](\A n \in (LineWidth + 1)..(LineWidth + MaxOver + 1) :
              (rpc = "done" /\ desc = LongRunDoc(n)) =>
                  w = Rep(NL, n - LineWidth) \o SubSeq(LongRun(n), n - LineWidth + 1, n) \o <<NL>>)

C9_Witness ==
    /\ rpc = "done"
    /\ desc = LongRunDoc(90)
    /\ w = Rep(NL, 10) \o SubSeq(LongRun(90), 11, 90) \o <<NL>>

(* A line of t is wider than LineWidth *)
TooWide(t) ==
    \E i \in 1..(Len(t) - LineWidth) : \A k \in i..(i + LineWidth) : t[k] # NL

(* C10: every line of the body is at most 80 characters wide, and the      *)
(* budget of a text run is never negative.                                 *)
C10_BodyWithinWidth ==
    /\ rpc \in {"token", "wrap"} => ~TooWide(w)
    /\ rpc = "wrap" => limit >= 0

====
